---- MODULE Spec2Model ----
(***************************************************************************)
(* Model of the simpleiot store layer (db/db.go) and of the node           *)
(* replication over NATS (nats.SendNode).                                  *)
(*                                                                         *)
(* The store is a bolthold store: one bucket per record type, each bucket  *)
(* a finite map from key to record.  Every db.update call runs its         *)
(* callback inside one bolt write transaction: bolt serialises write       *)
(* transactions and rolls the transaction back when the callback returns   *)
(* an error, so each repository call is one atomic step of the model.      *)
(***************************************************************************)
EXTENDS Integers, Sequences, FiniteSets, TLC

\* ------------------------------------------------------------------ bounds
MaxRules == 2        \* number of uuid.New() rule identifiers handed out
MaxValue == 2        \* point values range over 1..MaxValue
MaxRuns == 2         \* number of SendNode calls made in a row for one root
MaxUuid == 2         \* number of identifiers uuid.New() hands to the user and group inserts
MaxDepth == 5        \* depth of the SendNode recursion followed on a source whose children form a cycle
MaxGroups == 1       \* number of groups inserted next to the ones initialize and GroupUpdate store

\* ------------------------------------------------------------ input domains
NodeIds == {"n1", "n2"}
CmdPayloads == {"", "a", "b"}
PointIdents == {<<"temp", "">>, <<"volt", "V0">>, <<"volt", "V1">>}
AllPoints ==
  {[Type |-> i[1], Key |-> i[2], Value |-> v, Text |-> ""] : i \in PointIdents, v \in 1..MaxValue}
OnePoint == {p \in AllPoints : p.Type = "temp" /\ p.Value = 1}
GroupLists == {<<>>, <<1>>}
OneNode == {"n1"}
RuleIds == 1..MaxRules
RuleStates == {FALSE, TRUE}
SwStates == {"running"}

\* ---------------------------------------------------------------- errors
Nil == "nil"
ErrNotFound == "ErrNotFound"
ErrKeyExists == "ErrKeyExists"

\* ------------------------------------------------- data package (node.go)
SysStateUnknown == "unknown"
SysStateOffline == "offline"
SysStateOnline == "online"
SysStates == {SysStateOffline}

\* the zero value of data.Node
ZeroNode ==
  [ID |-> "", Type |-> "", Points |-> <<>>, SysState |-> SysStateUnknown,
   CmdPending |-> FALSE, SwUpdateState |-> "idle", Groups |-> <<>>, Rules |-> <<>>]

\* the zero value of data.NodeCmd
ZeroCmd == [ID |-> "", Cmd |-> ""]

\* Points.ProcessPoint: a point of the same (Type, Key) is replaced in place,
\* any other point is appended
ProcessPoint(points, p) ==
  IF \E i \in 1..Len(points) : points[i].Type = p.Type /\ points[i].Key = p.Key
    THEN [i \in 1..Len(points) |->
            IF points[i].Type = p.Type /\ points[i].Key = p.Key THEN p ELSE points[i]]
    ELSE Append(points, p)

SetState(dev, state) == [dev EXCEPT !.SysState = state]

SetSwUpdateState(dev, state) == [dev EXCEPT !.SwUpdateState = state]

SetCmdPending(dev, pending) == [dev EXCEPT !.CmdPending = pending]

\* --------------------------------------------------- bolthold primitives
\* a bucket is a function from the keys present to the records stored
EmptyBucket == [k \in {} |-> ZeroNode]

Has(bucket, key) == key \in DOMAIN bucket

\* TxUpsert: insert or overwrite
Put(bucket, key, rec) ==
  [k \in (DOMAIN bucket) \cup {key} |-> IF k = key THEN rec ELSE bucket[k]]

\* TxDelete of a key that is present
Del(bucket, key) == [k \in (DOMAIN bucket) \ {key} |-> bucket[k]]

VARIABLES
  nodes,     \* data.Node bucket: node identifier -> Node
  cmds,      \* data.NodeCmd bucket: node identifier -> NodeCmd
  rules,     \* data.Rule bucket: rule identifier -> Rule
  nextRule,  \* the next identifier uuid.New() hands to RuleInsert
  last,      \* the call made last and what it returned
  hist       \* per node, what the callers of the command operations have seen:
             \* the payload of the last successful NodeSetCmd ("set"), that a
             \* NodeGetCmd has since returned a non-empty command and no error
             \* ("taken"), or "none"

VARIABLES
  users,     \* data.User bucket: key -> User
  groups,    \* data.Group bucket: key -> Group
  issued,    \* the identifiers uuid.New() has handed to UserInsert and GroupInsert
  out        \* the user or group call made last and what it returned

dbVars == <<nodes, cmds, rules, nextRule, last, hist, users, groups, issued, out>>

\* the buckets of the store as one transaction state
Store == [nodes |-> nodes, cmds |-> cmds, rules |-> rules, users |-> users, groups |-> groups]

Ok(st) == [st |-> st, err |-> Nil]
Fail(st, e) == [st |-> st, err |-> e]

\* an update that commits the callback's writes whatever it returns
updateCommitsOnError(r) ==
  /\ nodes' = r.st.nodes
  /\ cmds' = r.st.cmds
  /\ rules' = r.st.rules
  /\ users' = r.st.users
  /\ groups' = r.st.groups

\* Db.update: the callback's writes are committed when it returns nil and
\* rolled back when it returns an error
update(r) ==
  IF r.err = Nil
    THEN /\ nodes' = r.st.nodes
         /\ cmds' = r.st.cmds
         /\ rules' = r.st.rules
         /\ users' = r.st.users
         /\ groups' = r.st.groups
    ELSE UNCHANGED <<nodes, cmds, rules, users, groups>>


\* ------------------------------------------------------- Node repository
\* NodeDelete: delete every rule listed in the node, then the node.  Each
\* entry of device.Rules is the key under which RuleInsert stored the rule;
\* TxDelete of a key that is not stored returns ErrNotFound.
RECURSIVE DeleteRuleRefs(_, _)
DeleteRuleRefs(bucket, refs) ==
  IF refs = <<>> THEN [rules |-> bucket, err |-> Nil]
  ELSE IF ~Has(bucket, Head(refs)) THEN [rules |-> bucket, err |-> ErrNotFound]
  ELSE DeleteRuleRefs(Del(bucket, Head(refs)), Tail(refs))

\* NodeDelete that deletes the node although a rule deletion failed
NodeDeleteTxPartial(st, id) ==
  IF ~Has(st.nodes, id) THEN Fail(st, ErrNotFound)
  ELSE LET d == DeleteRuleRefs(st.rules, st.nodes[id].Rules)
       IN Ok([st EXCEPT !.rules = d.rules, !.nodes = Del(st.nodes, id)])

NodeDeleteTx(st, id) ==
  IF ~Has(st.nodes, id) THEN Fail(st, ErrNotFound)
  ELSE LET device == st.nodes[id]
           d == DeleteRuleRefs(st.rules, device.Rules)
           st1 == [st EXCEPT !.rules = d.rules]
       IN IF d.err # Nil THEN Fail(st1, d.err)
          ELSE Ok([st1 EXCEPT !.nodes = Del(st1.nodes, id)])

NodeDelete(id) ==
  LET r == NodeDeleteTx(Store, id)
  IN /\ update(r)
     /\ last' = [op |-> "NodeDelete", id |-> id, arg |-> "", err |-> r.err, cmd |-> ""]
     /\ UNCHANGED <<nextRule, hist>>

\* NodeUpdateGroups writing a new node that carries only the groups
NodeUpdateGroupsTxFresh(st, id, newGroups) ==
  IF ~Has(st.nodes, id) THEN Fail(st, ErrNotFound)
  ELSE Ok([st EXCEPT !.nodes = Put(st.nodes, id, [ZeroNode EXCEPT !.ID = id, !.Groups = newGroups])])

NodeUpdateGroupsTx(st, id, newGroups) ==
  IF ~Has(st.nodes, id) THEN Fail(st, ErrNotFound)
  ELSE LET dev == [st.nodes[id] EXCEPT !.Groups = newGroups]
       IN Ok([st EXCEPT !.nodes = Put(st.nodes, id, dev)])

NodeUpdateGroups(id, newGroups) ==
  LET r == NodeUpdateGroupsTx(Store, id, newGroups)
  IN /\ update(r)
     /\ last' = [op |-> "NodeUpdateGroups", id |-> id, arg |-> newGroups, err |-> r.err, cmd |-> ""]
     /\ UNCHANGED <<nextRule, hist>>

\* the node read by TxGet, or the zero Node carrying the identifier when
\* the read fails with ErrNotFound (NodePoint, NodeSetState, NodeSetSwUpdateState)
GetOrNew(st, id) ==
  IF Has(st.nodes, id) THEN st.nodes[id] ELSE [ZeroNode EXCEPT !.ID = id]

\* NodePoint appending the point instead of merging it
NodePointTxAppend(st, id, point) ==
  LET dev0 == GetOrNew(st, id)
      dev1 == [dev0 EXCEPT !.Points = Append(@, point)]
      dev2 == SetState(dev1, SysStateOnline)
  IN Ok([st EXCEPT !.nodes = Put(st.nodes, id, dev2)])

\* NodePoint returning ErrNotFound instead of creating the node
NodePointTxNoUpsert(st, id, point) ==
  IF ~Has(st.nodes, id) THEN Fail(st, ErrNotFound)
  ELSE LET dev == SetState([st.nodes[id] EXCEPT !.Points = ProcessPoint(@, point)], SysStateOnline)
       IN Ok([st EXCEPT !.nodes = Put(st.nodes, id, dev)])

\* NodePoint: the write to influx that precedes the transaction only logs
\* its error and changes nothing in the store
NodePointTx(st, id, point) ==
  LET dev0 == GetOrNew(st, id)
      dev1 == [dev0 EXCEPT !.Points = ProcessPoint(@, point)]
      dev2 == SetState(dev1, SysStateOnline)
  IN Ok([st EXCEPT !.nodes = Put(st.nodes, id, dev2)])

NodePoint(id, point) ==
  LET r == NodePointTx(Store, id, point)
  IN /\ update(r)
     /\ last' = [op |-> "NodePoint", id |-> id, arg |-> point, err |-> r.err, cmd |-> ""]
     /\ UNCHANGED <<nextRule, hist>>

\* NodeSetState returning the error of the read instead of creating the node
NodeSetStateTxNoUpsert(st, id, state) ==
  IF ~Has(st.nodes, id) THEN Fail(st, ErrNotFound)
  ELSE Ok([st EXCEPT !.nodes = Put(st.nodes, id, SetState(st.nodes[id], state))])

NodeSetStateTx(st, id, state) ==
  LET dev == SetState(GetOrNew(st, id), state)
  IN Ok([st EXCEPT !.nodes = Put(st.nodes, id, dev)])

NodeSetState(id, state) ==
  LET r == NodeSetStateTx(Store, id, state)
  IN /\ update(r)
     /\ last' = [op |-> "NodeSetState", id |-> id, arg |-> state, err |-> r.err, cmd |-> ""]
     /\ UNCHANGED <<nextRule, hist>>

NodeSetSwUpdateStateTx(st, id, state) ==
  LET dev == SetSwUpdateState(GetOrNew(st, id), state)
  IN Ok([st EXCEPT !.nodes = Put(st.nodes, id, dev)])

NodeSetSwUpdateState(id, state) ==
  LET r == NodeSetSwUpdateStateTx(Store, id, state)
  IN /\ update(r)
     /\ last' = [op |-> "NodeSetSwUpdateState", id |-> id, arg |-> state, err |-> r.err, cmd |-> ""]
     /\ UNCHANGED <<nextRule, hist>>

\* NodeSetCmd: upsert the command, then read the node and set its flag
NodeSetCmdTx(st, cmd) ==
  LET st1 == [st EXCEPT !.cmds = Put(st.cmds, cmd.ID, cmd)]
  IN IF ~Has(st1.nodes, cmd.ID) THEN Fail(st1, ErrNotFound)
     ELSE LET dev == SetCmdPending(st1.nodes[cmd.ID], TRUE)
          IN Ok([st1 EXCEPT !.nodes = Put(st1.nodes, cmd.ID, dev)])

NodeSetCmd(cmd) ==
  LET r == NodeSetCmdTx(Store, cmd)
  IN /\ update(r)
     /\ last' = [op |-> "NodeSetCmd", id |-> cmd.ID, arg |-> cmd.Cmd, err |-> r.err, cmd |-> ""]
     /\ hist' = IF r.err = Nil THEN [hist EXCEPT ![cmd.ID] = [k |-> "set", c |-> cmd.Cmd]] ELSE hist
     /\ UNCHANGED nextRule

\* NodeDeleteCmd that leaves the node's flag set
NodeDeleteCmdTxKeepsFlag(st, id) ==
  IF ~Has(st.cmds, id) THEN Fail(st, ErrNotFound)
  ELSE LET st1 == [st EXCEPT !.cmds = Del(st.cmds, id)]
       IN IF ~Has(st1.nodes, id) THEN Fail(st1, ErrNotFound) ELSE Ok(st1)

\* NodeDeleteCmd: delete the command, then read the node and clear its flag
NodeDeleteCmdTx(st, id) ==
  IF ~Has(st.cmds, id) THEN Fail(st, ErrNotFound)
  ELSE LET st1 == [st EXCEPT !.cmds = Del(st.cmds, id)]
       IN IF ~Has(st1.nodes, id) THEN Fail(st1, ErrNotFound)
          ELSE LET dev == SetCmdPending(st1.nodes[id], FALSE)
               IN Ok([st1 EXCEPT !.nodes = Put(st1.nodes, id, dev)])

NodeDeleteCmd(id) ==
  LET r == NodeDeleteCmdTx(Store, id)
  IN /\ update(r)
     /\ last' = [op |-> "NodeDeleteCmd", id |-> id, arg |-> "", err |-> r.err, cmd |-> ""]
     /\ hist' = IF r.err = Nil THEN [hist EXCEPT ![id] = [k |-> "none", c |-> ""]] ELSE hist
     /\ UNCHANGED nextRule

\* NodeGetCmd: the command read (the zero NodeCmd when there is none) is
\* handed to the caller whatever the transaction's outcome
NodeGetCmdRead(st, id) == IF Has(st.cmds, id) THEN st.cmds[id] ELSE ZeroCmd

\* NodeGetCmd that never deletes the command it read
NodeGetCmdTxKeepsCmd(st, id) == Ok(st)

\* NodeGetCmd that returns the ErrNotFound of the command read
NodeGetCmdTxNotFound(st, id) ==
  IF ~Has(st.cmds, id) THEN Fail(st, ErrNotFound)
  ELSE LET cmd == st.cmds[id]
       IN IF cmd.Cmd # ""
            THEN LET st1 == [st EXCEPT !.cmds = Del(st.cmds, id)]
                 IN IF ~Has(st1.nodes, id) THEN Fail(st1, ErrNotFound)
                    ELSE Ok([st1 EXCEPT !.nodes = Put(st1.nodes, id, SetCmdPending(st1.nodes[id], FALSE))])
            ELSE Ok(st)

NodeGetCmdTx(st, id) ==
  LET cmd == NodeGetCmdRead(st, id)
  IN IF cmd.Cmd # ""
       THEN LET st1 == [st EXCEPT !.cmds = Del(st.cmds, id)]
            IN IF ~Has(st1.nodes, id) THEN Fail(st1, ErrNotFound)
               ELSE LET dev == SetCmdPending(st1.nodes[id], FALSE)
                    IN Ok([st1 EXCEPT !.nodes = Put(st1.nodes, id, dev)])
       ELSE Ok(st)

NodeGetCmd(id) ==
  LET r == NodeGetCmdTx(Store, id)
  IN /\ update(r)
     /\ last' = [op |-> "NodeGetCmd", id |-> id, arg |-> "", err |-> r.err,
                 cmd |-> NodeGetCmdRead(Store, id).Cmd]
     /\ hist' = IF r.err = Nil /\ NodeGetCmdRead(Store, id).Cmd # ""
                  THEN [hist EXCEPT ![id] = [k |-> "taken", c |-> ""]] ELSE hist
     /\ UNCHANGED nextRule

\* ------------------------------------------------------- Rule repository
\* RuleInsert: insert the rule under a new identifier, then append the
\* identifier to the Rules of the node the rule's config names
\* RuleInsert that keeps the rule when the node it names is missing
RuleInsertTxKeepsRule(st, rule) ==
  IF Has(st.rules, rule.ID) THEN Fail(st, ErrKeyExists)
  ELSE LET st1 == [st EXCEPT !.rules = Put(st.rules, rule.ID, rule)]
       IN IF ~Has(st1.nodes, rule.Config.NodeID) THEN Ok(st1)
          ELSE LET device == [st1.nodes[rule.Config.NodeID] EXCEPT !.Rules = Append(@, rule.ID)]
               IN Ok([st1 EXCEPT !.nodes = Put(st1.nodes, device.ID, device)])

RuleInsertTx(st, rule) ==
  IF Has(st.rules, rule.ID) THEN Fail(st, ErrKeyExists)
  ELSE LET st1 == [st EXCEPT !.rules = Put(st.rules, rule.ID, rule)]
       IN IF ~Has(st1.nodes, rule.Config.NodeID) THEN Fail(st1, ErrNotFound)
          ELSE LET device == [st1.nodes[rule.Config.NodeID] EXCEPT !.Rules = Append(@, rule.ID)]
               IN IF ~Has(st1.nodes, device.ID) THEN Fail(st1, ErrNotFound)
                  ELSE Ok([st1 EXCEPT !.nodes = Put(st1.nodes, device.ID, device)])

\* uuid.New() is modelled by a counter: an identifier is never handed out twice
RuleInsert(config, state) ==
  /\ nextRule <= MaxRules
  /\ LET rule == [ID |-> nextRule, Config |-> config, State |-> state]
         r == RuleInsertTx(Store, rule)
     IN /\ update(r)
        /\ nextRule' = nextRule + 1
        /\ last' = [op |-> "RuleInsert", id |-> config.NodeID, arg |-> rule.ID, err |-> r.err, cmd |-> ""]
        /\ UNCHANGED hist

RuleUpdateConfigTx(st, id, config) ==
  IF ~Has(st.rules, id) THEN Fail(st, ErrNotFound)
  ELSE Ok([st EXCEPT !.rules = Put(st.rules, id, [st.rules[id] EXCEPT !.Config = config])])

RuleUpdateConfig(id, config) ==
  LET r == RuleUpdateConfigTx(Store, id, config)
  IN /\ update(r)
     /\ last' = [op |-> "RuleUpdateConfig", id |-> config.NodeID, arg |-> id, err |-> r.err, cmd |-> ""]
     /\ UNCHANGED <<nextRule, hist>>

RuleUpdateStateTx(st, id, state) ==
  IF ~Has(st.rules, id) THEN Fail(st, ErrNotFound)
  ELSE Ok([st EXCEPT !.rules = Put(st.rules, id, [st.rules[id] EXCEPT !.State = state])])

RuleUpdateState(id, state) ==
  LET r == RuleUpdateStateTx(Store, id, state)
  IN /\ update(r)
     /\ last' = [op |-> "RuleUpdateState", id |-> "", arg |-> id, err |-> r.err, cmd |-> ""]
     /\ UNCHANGED <<nextRule, hist>>

\* RuleDelete: read the rule, read the node its config names, delete the
\* rule; the node is not written
RuleDeleteTx(st, id) ==
  IF ~Has(st.rules, id) THEN Fail(st, ErrNotFound)
  ELSE LET rule == st.rules[id]
       IN IF ~Has(st.nodes, rule.Config.NodeID) THEN Fail(st, ErrNotFound)
          ELSE Ok([st EXCEPT !.rules = Del(st.rules, id)])

RuleDelete(id) ==
  LET r == RuleDeleteTx(Store, id)
  IN /\ update(r)
     /\ last' = [op |-> "RuleDelete", id |-> "", arg |-> id, err |-> r.err, cmd |-> ""]
     /\ UNCHANGED <<nextRule, hist>>

\* ------------------------------------------- user and group repository
\* the all-zero uuid
zero == 0

\* an identifier that is never handed out by uuid.New() and never listed
Stranger == MaxUuid + 1

RoleAdmin == "admin"

\* the identifiers callers pass: the sentinel, one user, and a stranger
UserIds == {zero, 1, Stranger}

\* the membership lists callers pass in a group
MemberLists ==
  {<<>>, <<[UserID |-> 1, Roles |-> <<>>]>>, <<[UserID |-> 1, Roles |-> <<RoleAdmin>>]>>}

GroupNames == {"root", "ops"}

\* the groups a caller can pass once the identifiers ids are known to it
GroupInputs(ids) ==
  [ID : ids, Name : GroupNames, Parent : {zero}, Users : MemberLists]

FirstNames == {"Alice", "bob", "Bob"}

\* strings.ToLower on the first names in use
ToLower(name) ==
  CASE name = "Alice" -> "alice"
    [] name = "Bob" -> "bob"
    [] OTHER -> name

\* position of a lower-cased first name in the byte order of Go's string <
Rank(name) ==
  CASE name = "admin" -> 1
    [] name = "alice" -> 2
    [] name = "bob" -> 3

\* users.Less on two users
Less(a, b) == Rank(ToLower(a.FirstName)) < Rank(ToLower(b.FirstName))

\* the records initialize inserts
AdminUser == [ID |-> zero, FirstName |-> "admin"]
RootGroup ==
  [ID |-> zero, Name |-> "root", Parent |-> zero,
   Users |-> <<[UserID |-> zero, Roles |-> <<RoleAdmin>>]>>]

NoOut == [op |-> "", id |-> zero, err |-> Nil, res |-> FALSE]

\* bolt iterates a bucket in key order: the first key of a set of matches
FirstKey(keys) == CHOOSE k \in keys : \A j \in keys : k <= j

\* the keys of a bucket in the order Find returns their records
RECURSIVE KeyOrder(_)
KeyOrder(keys) ==
  IF keys = {} THEN <<>>
  ELSE <<FirstKey(keys)>> \o KeyOrder(keys \ {FirstKey(keys)})

\* initialize without the lookup of the group named root
initializeTxNoLookup(st) ==
  IF Has(st.users, zero) THEN Fail(st, ErrKeyExists)
  ELSE LET st1 == [st EXCEPT !.users = Put(st.users, zero, AdminUser)]
       IN IF Has(st1.groups, zero) THEN Fail(st1, ErrKeyExists)
          ELSE Ok([st1 EXCEPT !.groups = Put(st1.groups, zero, RootGroup)])

\* initialize: nothing to do when a group named root is found; else insert
\* the admin user and the root group, both under the zero key, in one
\* transaction
initializeTx(st) ==
  IF \E k \in DOMAIN st.groups : st.groups[k].Name = "root" THEN Ok(st)
  ELSE IF Has(st.users, zero) THEN Fail(st, ErrKeyExists)
  ELSE LET st1 == [st EXCEPT !.users = Put(st.users, zero, AdminUser)]
       IN IF Has(st1.groups, zero) THEN Fail(st1, ErrKeyExists)
          ELSE Ok([st1 EXCEPT !.groups = Put(st1.groups, zero, RootGroup)])

initialize ==
  LET r == initializeTx(Store)
  IN /\ update(r)
     /\ out' = [op |-> "initialize", id |-> zero, err |-> r.err, res |-> FALSE]
     /\ UNCHANGED issued

\* UserInsert: store the user under a fresh key
UserInsertTx(st, id, user) ==
  IF Has(st.users, id) THEN Fail(st, ErrKeyExists)
  ELSE Ok([st EXCEPT !.users = Put(st.users, id, user)])

UserInsert(user) ==
  \E id \in (1..MaxUuid) \ issued :
    LET r == UserInsertTx(Store, id, user)
    IN /\ update(r)
       /\ issued' = issued \cup {id}
       /\ out' = [op |-> "UserInsert", id |-> id, err |-> r.err, res |-> FALSE]

\* TxDeleteMatching Where("ID").Eq(id): drop every record whose ID field is id
DeleteMatching(bucket, id) ==
  [k \in {j \in DOMAIN bucket : bucket[j].ID # id} |-> bucket[k]]

\* UserUpdate: replace the user under the key user.ID; when no record has
\* that key, delete the users whose ID field is user.ID and store the update
\* under the key user.ID
UserUpdateTx(st, user) ==
  IF Has(st.users, user.ID)
    THEN Ok([st EXCEPT !.users = Put(st.users, user.ID, user)])
    ELSE Ok([st EXCEPT !.users = Put(DeleteMatching(st.users, user.ID), user.ID, user)])

UserUpdate(user) ==
  LET r == UserUpdateTx(Store, user)
  IN /\ update(r)
     /\ out' = [op |-> "UserUpdate", id |-> user.ID, err |-> r.err, res |-> user]
     /\ UNCHANGED issued

\* UserDelete: delete the user under the key
UserDeleteTx(st, id) ==
  IF ~Has(st.users, id) THEN Fail(st, ErrNotFound)
  ELSE Ok([st EXCEPT !.users = Del(st.users, id)])

UserDelete(id) ==
  LET r == UserDeleteTx(Store, id)
  IN /\ update(r)
     /\ out' = [op |-> "UserDelete", id |-> id, err |-> r.err, res |-> FALSE]
     /\ UNCHANGED issued

\* sort.Sort orders by Less and promises nothing about elements that Less
\* does not order: every arrangement of the records that Less accepts
Sorted(seq) == \A i, j \in 1..Len(seq) : i < j => ~Less(seq[j], seq[i])

Arrangements(seq) ==
  {[i \in 1..Len(seq) |-> seq[f[i]]] : f \in Permutations(1..Len(seq))}

\* what Find(&ret, nil) reads: the records in key order
FindUsers(st) == [i \in 1..Cardinality(DOMAIN st.users) |-> st.users[KeyOrder(DOMAIN st.users)[i]]]

\* Users: read every user, sort by lower-cased first name
Users ==
  /\ \E ret \in {a \in Arrangements(FindUsers(Store)) : Sorted(a)} :
       out' = [op |-> "Users", id |-> zero, err |-> Nil, res |-> ret]
  /\ UNCHANGED <<nodes, cmds, rules, users, groups, issued>>

\* UserIsRoot: the first group whose ID field is zero lists the user
UserIsRootRet(st, id) ==
  LET found == {k \in DOMAIN st.groups : st.groups[k].ID = zero}
  IN IF found = {} THEN [res |-> FALSE, err |-> ErrNotFound]
     ELSE LET group == st.groups[FirstKey(found)]
          IN [res |-> \E i \in 1..Len(group.Users) : group.Users[i].UserID = id,
              err |-> Nil]

UserIsRoot(id) ==
  /\ out' = [op |-> "UserIsRoot", id |-> id,
             err |-> UserIsRootRet(Store, id).err, res |-> UserIsRootRet(Store, id).res]
  /\ UNCHANGED <<nodes, cmds, rules, users, groups, issued>>

\* the elements of a list
Elems(seq) == {seq[i] : i \in 1..Len(seq)}

\* NodesForUser matching the nodes against every group, the user's or not
NodesForUserRetAnyGroup(st, userID) ==
  LET isRoot == UserIsRootRet(st, userID)
      groupIDs == {st.groups[k].ID : k \in DOMAIN st.groups}
  IN IF isRoot.err # Nil THEN [res |-> {}, err |-> isRoot.err]
     ELSE IF isRoot.res THEN [res |-> {st.nodes[n] : n \in DOMAIN st.nodes}, err |-> Nil]
     ELSE [res |-> {st.nodes[n] : n \in {m \in DOMAIN st.nodes :
                      Elems(st.nodes[m].Groups) \cap groupIDs # {}}},
           err |-> Nil]

\* NodesForUser: every node for a root user; else the nodes whose Groups
\* holds the ID of a group that lists the user
NodesForUserRet(st, userID) ==
  LET isRoot == UserIsRootRet(st, userID)
      groupIDs == {st.groups[k].ID : k \in {j \in DOMAIN st.groups :
                     \E i \in 1..Len(st.groups[j].Users) : st.groups[j].Users[i].UserID = userID}}
  IN IF isRoot.err # Nil THEN [res |-> {}, err |-> isRoot.err]
     ELSE IF isRoot.res THEN [res |-> {st.nodes[n] : n \in DOMAIN st.nodes}, err |-> Nil]
     ELSE [res |-> {st.nodes[n] : n \in {m \in DOMAIN st.nodes :
                      Elems(st.nodes[m].Groups) \cap groupIDs # {}}},
           err |-> Nil]

NodesForUser(userID) ==
  /\ out' = [op |-> "NodesForUser", id |-> userID,
             err |-> NodesForUserRet(Store, userID).err, res |-> NodesForUserRet(Store, userID).res]
  /\ UNCHANGED <<nodes, cmds, rules, users, groups, issued>>

\* GroupInsert: store the group, its Parent zeroed, under a fresh key
GroupInsertTx(st, id, group) ==
  IF Has(st.groups, id) THEN Fail(st, ErrKeyExists)
  ELSE Ok([st EXCEPT !.groups = Put(st.groups, id, [group EXCEPT !.Parent = zero])])

GroupInsert(group) ==
  \E id \in (1..MaxUuid) \ issued :
    LET r == GroupInsertTx(Store, id, group)
    IN /\ update(r)
       /\ issued' = issued \cup {id}
       /\ out' = [op |-> "GroupInsert", id |-> id, err |-> r.err, res |-> FALSE]

\* GroupUpdate: replace the group under the key gUpdate.ID; when no record
\* has that key, delete the groups whose ID field is gUpdate.ID and store the
\* update under the key gUpdate.ID
GroupUpdateTx(st, gUpdate) ==
  IF Has(st.groups, gUpdate.ID)
    THEN Ok([st EXCEPT !.groups = Put(st.groups, gUpdate.ID, gUpdate)])
    ELSE Ok([st EXCEPT !.groups = Put(DeleteMatching(st.groups, gUpdate.ID), gUpdate.ID, gUpdate)])

GroupUpdate(gUpdate) ==
  LET r == GroupUpdateTx(Store, gUpdate)
  IN /\ update(r)
     /\ out' = [op |-> "GroupUpdate", id |-> gUpdate.ID, err |-> r.err, res |-> gUpdate]
     /\ UNCHANGED issued

\* GroupDelete: delete the group under the key, whichever group it is
GroupDeleteTx(st, id) ==
  IF ~Has(st.groups, id) THEN Fail(st, ErrNotFound)
  ELSE Ok([st EXCEPT !.groups = Del(st.groups, id)])

GroupDelete(id) ==
  LET r == GroupDeleteTx(Store, id)
  IN /\ update(r)
     /\ out' = [op |-> "GroupDelete", id |-> id, err |-> r.err, res |-> FALSE]
     /\ UNCHANGED issued

\* ------------------------------------------------ replication (SendNode)
PointTypeNodeType == "nodeType"
PointTypeParent == "parent"

TreeIds == {"r", "c1", "c2", "g1"}

\* the source trees: every node but "r" hangs under a node before it in the
\* order r, c1, c2, g1, or is not a child of any node
ParentChoices ==
  [c1 : {"", "r"}, c2 : {"", "r", "c1"}, g1 : {"", "r", "c1", "c2"}]

ParentOf(shape, id) ==
  CASE id = "c1" -> shape.c1 [] id = "c2" -> shape.c2 [] id = "g1" -> shape.g1 [] OTHER -> ""

\* the children of a node, in the order the source returns them
ChildrenOf(shape, id) ==
  LET c(k) == IF ParentOf(shape, k) = id THEN <<k>> ELSE <<>>
  IN c("c1") \o c("c2") \o c("g1")

SrcNode(id) ==
  [ZeroNode EXCEPT !.ID = id,
                   !.Type = IF id = "r" THEN "gateway" ELSE "device",
                   !.Points = IF id = "r"
                                THEN <<[Type |-> "temp", Key |-> "", Value |-> 1, Text |-> ""],
                                       [Type |-> "volt", Key |-> "V0", Value |-> 2, Text |-> ""]>>
                                ELSE <<[Type |-> "temp", Key |-> "", Value |-> 2, Text |-> ""]>>]

SrcStore(shape) ==
  [nodes |-> [id \in TreeIds |-> SrcNode(id)],
   children |-> [id \in TreeIds |-> ChildrenOf(shape, id)]]

NoSrc == [nodes |-> EmptyBucket, children |-> EmptyBucket]

\* the children relations with a cycle: r its own child after the leaf g1; r
\* the child of its child c1; c1 the child of its child c2
CyclicChildren ==
  {[id \in TreeIds |-> IF id = "r" THEN <<"g1", "r">> ELSE <<>>],
   [id \in TreeIds |-> CASE id = "r" -> <<"c1">> [] id = "c1" -> <<"r">> [] OTHER -> <<>>],
   [id \in TreeIds |-> CASE id = "r" -> <<"g1", "c1">> [] id = "c1" -> <<"c2">>
                          [] id = "c2" -> <<"c1">> [] OTHER -> <<>>]}

VARIABLES
  src,    \* the source instance: its Node bucket and the children of each node
  dest,   \* the Node bucket of the destination instance
  stack,  \* the SendNode calls in progress, the innermost last
  ret,    \* what the outermost SendNode call returned, "running" until then
  log,    \* the requests answered so far, in order
  sent,   \* the node identifier and the points of the SendPoints call made last
  txn     \* the repository calls made at the same time: who holds bolt's writer
          \* lock, and where each call is

replVars == <<src, dest, stack, ret, log, sent>>

vars ==
  <<nodes, cmds, rules, nextRule, last, hist, users, groups, issued, out,
    src, dest, stack, ret, log, sent, txn>>

\* no SendPoints call made yet
NoSent == [id |-> "", points |-> <<>>]

\* the call SendNode(src, dest, id, parent) at its first statement
Call(id, parent) == [id |-> id, parent |-> parent, pc |-> "get", node |-> ZeroNode, kids |-> <<>>]

Top == stack[Len(stack)]

SetTop(f) == [stack EXCEPT ![Len(stack)] = f]

\* the order of the statements of SendNode
AdvanceChildrenFirst(pc) ==
  CASE pc = "get" -> "children" [] pc = "children" -> "send" [] pc = "send" -> "loop"

Advance(pc) ==
  CASE pc = "get" -> "send" [] pc = "send" -> "children" [] pc = "children" -> "loop"

\* an error return after which the caller goes on with the next child
ReturnErrorSkipsChild(e) ==
  /\ stack' = SubSeq(stack, 1, Len(stack) - 1)
  /\ ret' = IF Len(stack) = 1 THEN e ELSE ret

\* an error return: every caller up the recursion wraps the error and returns
ReturnError(e) ==
  /\ stack' = <<>>
  /\ ret' = IF Len(stack) > 1 THEN "Error sending child node" ELSE e

\* GetNode answered by the source
GetNodeOk ==
  /\ stack # <<>> /\ Top.pc = "get"
  /\ Has(src.nodes, Top.id)
  /\ stack' = SetTop([Top EXCEPT !.node = src.nodes[Top.id], !.pc = Advance(Top.pc)])
  /\ log' = Append(log, [ev |-> "node", id |-> Top.id, parent |-> Top.parent])
  /\ UNCHANGED <<src, dest, ret, sent>>

\* GetNode failing: no such node, or no answer within the timeout
GetNodeErr ==
  /\ stack # <<>> /\ Top.pc = "get"
  /\ ReturnError("Error getting local node")
  /\ UNCHANGED <<src, dest, log, sent>>

\* the point list with a parent point for every node, the root included
OutgoingPointsAlwaysParent(node, parent) ==
  Append(Append(node.Points,
                [Type |-> PointTypeNodeType, Key |-> "", Value |-> 0, Text |-> node.Type]),
         [Type |-> PointTypeParent, Key |-> "", Value |-> 0, Text |-> parent])

\* the points SendNode publishes for the node it fetched
OutgoingPoints(node, parent) ==
  LET typed == Append(node.Points,
                      [Type |-> PointTypeNodeType, Key |-> "", Value |-> 0, Text |-> node.Type])
  IN IF parent # ""
       THEN Append(typed, [Type |-> PointTypeParent, Key |-> "", Value |-> 0, Text |-> parent])
       ELSE typed

\* the destination applying a batch of points to a node, one NodePoint each
RECURSIVE ApplyPoints(_, _, _)
ApplyPoints(bucket, id, points) ==
  IF points = <<>> THEN bucket
  ELSE ApplyPoints(
         NodePointTx([nodes |-> bucket, cmds |-> EmptyBucket, rules |-> EmptyBucket,
                      users |-> EmptyBucket, groups |-> EmptyBucket],
                     id, Head(points)).st.nodes,
         id, Tail(points))

\* SendPoints acknowledged by the destination
SendPointsOk ==
  /\ stack # <<>> /\ Top.pc = "send"
  /\ dest' = ApplyPoints(dest, Top.id, OutgoingPoints(Top.node, Top.parent))
  /\ stack' = SetTop([Top EXCEPT !.pc = Advance(Top.pc)])
  /\ log' = Append(log, [ev |-> "points", id |-> Top.id, parent |-> Top.parent])
  /\ sent' = [id |-> Top.id, points |-> OutgoingPoints(Top.node, Top.parent)]
  /\ UNCHANGED <<src, ret>>

SendPointsErr ==
  /\ stack # <<>> /\ Top.pc = "send"
  /\ ReturnError("Error sending node upstream")
  /\ UNCHANGED <<src, dest, log, sent>>

\* GetNodeChildren answered by the source
GetNodeChildrenOk ==
  /\ stack # <<>> /\ Top.pc = "children"
  /\ Has(src.children, Top.id)
  /\ stack' = SetTop([Top EXCEPT !.kids = src.children[Top.id], !.pc = Advance(Top.pc)])
  /\ log' = Append(log, [ev |-> "children", id |-> Top.id, parent |-> Top.parent])
  /\ UNCHANGED <<src, dest, ret, sent>>

GetNodeChildrenErr ==
  /\ stack # <<>> /\ Top.pc = "children"
  /\ ReturnError("Error getting node children")
  /\ UNCHANGED <<src, dest, log, sent>>

\* the recursive call handing on the parent it was given instead of its own node
SendChildWrongParent ==
  /\ stack # <<>> /\ Top.pc = "loop" /\ Top.kids # <<>>
  /\ stack' = Append(SetTop([Top EXCEPT !.kids = Tail(Top.kids)]), Call(Head(Top.kids), Top.parent))
  /\ UNCHANGED <<src, dest, ret, log, sent>>

\* the loop over the children: the call for the next child
SendChild ==
  /\ stack # <<>> /\ Top.pc = "loop" /\ Top.kids # <<>>
  /\ stack' = Append(SetTop([Top EXCEPT !.kids = Tail(Top.kids)]), Call(Head(Top.kids), Top.id))
  /\ UNCHANGED <<src, dest, ret, log, sent>>

\* the loop is over: return nil to the caller
ReturnNil ==
  /\ stack # <<>> /\ Top.pc = "loop" /\ Top.kids = <<>>
  /\ stack' = SubSeq(stack, 1, Len(stack) - 1)
  /\ ret' = IF Len(stack) = 1 THEN Nil ELSE ret
  /\ UNCHANGED <<src, dest, log, sent>>

\* the number of outermost SendNode calls the source has answered
Runs == Cardinality({j \in 1..Len(log) : log[j].ev = "node" /\ log[j].parent = ""})

\* SendNode called again for the same root once the call before it returned nil
SendNodeAgain ==
  /\ ret = Nil /\ stack = <<>> /\ log # <<>>
  /\ Runs < MaxRuns
  /\ stack' = <<Call(log[1].id, "")>>
  /\ ret' = "running"
  /\ UNCHANGED <<src, dest, log, sent>>

\* ---------------------------------------------------- concurrent calls
Procs == {"p1", "p2"}

\* the calls made at the same time on node n1: a point write by p1, and by p2
\* a write of a point with another (Type, Key), a group assignment, a
\* command or a rule insert
FirstCalls ==
  {[op |-> "NodePoint", id |-> "n1", arg |-> p] : p \in {q \in AllPoints : q.Type = "temp"}}

SecondCalls ==
  {[op |-> "NodePoint", id |-> "n1", arg |-> p] : p \in {q \in AllPoints : q.Type = "volt"}}
    \cup {[op |-> "NodeUpdateGroups", id |-> "n1", arg |-> g] : g \in GroupLists}
    \cup {[op |-> "NodeSetCmd", id |-> "n1", arg |-> c] : c \in CmdPayloads}
    \cup {[op |-> "RuleInsert", id |-> "n1", arg |-> s] : s \in RuleStates}

\* the callback a call hands to Db.update, run on the store st
Apply(call, st) ==
  CASE call.op = "NodePoint" -> NodePointTx(st, call.id, call.arg)
    [] call.op = "NodeUpdateGroups" -> NodeUpdateGroupsTx(st, call.id, call.arg)
    [] call.op = "NodeSetCmd" -> NodeSetCmdTx(st, [ID |-> call.id, Cmd |-> call.arg])
    [] call.op = "RuleInsert" ->
         RuleInsertTx(st, [ID |-> 1, Config |-> [NodeID |-> call.id], State |-> call.arg])

NoTxn == [lock |-> "", start |-> <<>>, procs |-> <<>>]

\* a writer that never waits for the lock
LockAlwaysFree == TRUE

\* bolt's Update begins a read-write transaction, which waits until no other
\* read-write transaction is open
LockFree == txn.lock = ""

\* Db.update entered: the read-write transaction begins
Begin(p) ==
  /\ txn.procs[p].pc = "call"
  /\ LockFree
  /\ txn' = [txn EXCEPT !.lock = p, !.procs[p].pc = "read"]
  /\ UNCHANGED <<nodes, cmds, rules, users, groups>>

\* the callback reads: the transaction sees the store as committed so far
Read(p) ==
  /\ txn.procs[p].pc = "read"
  /\ txn' = [txn EXCEPT !.procs[p].pc = "write", !.procs[p].snap = Store]
  /\ UNCHANGED <<nodes, cmds, rules, users, groups>>

\* the callback writes what it computed from what it read and returns; the
\* transaction commits or rolls back and releases the lock
Commit(p) ==
  /\ txn.procs[p].pc = "write"
  /\ LET r == Apply(txn.procs[p].call, txn.procs[p].snap)
     IN /\ update(r)
        /\ txn' = [txn EXCEPT !.lock = "", !.procs[p].pc = "done", !.procs[p].err = r.err]

\* ---------------------------------------------------------- specifications
NoCall == [op |-> "", id |-> "", arg |-> "", err |-> Nil, cmd |-> ""]

\* the user and group buckets of a store that NewDb opened with init false,
\* no call under way
InitIdentity ==
  /\ users = EmptyBucket
  /\ groups = EmptyBucket
  /\ issued = {}
  /\ out = NoOut
  /\ txn = NoTxn

InitDb ==
  /\ nodes = EmptyBucket
  /\ cmds = EmptyBucket
  /\ rules = EmptyBucket
  /\ nextRule = 1
  /\ last = NoCall
  /\ hist = [id \in NodeIds |-> [k |-> "none", c |-> ""]]
  /\ InitIdentity

\* no replication under way
InitIdle ==
  /\ src = NoSrc
  /\ dest = EmptyBucket
  /\ stack = <<>>
  /\ ret = "idle"
  /\ log = <<>>
  /\ sent = NoSent

Init == InitDb /\ InitIdle

\* the node and command operations of the repository
NextNode ==
  \/ \E id \in NodeIds : NodeDelete(id)
  \/ \E id \in NodeIds, g \in GroupLists : NodeUpdateGroups(id, g)
  \/ \E id \in NodeIds, p \in OnePoint : NodePoint(id, p)
  \/ \E id \in NodeIds, s \in SysStates : NodeSetState(id, s)
  \/ \E id \in NodeIds, s \in SwStates : NodeSetSwUpdateState(id, s)
  \/ \E id \in NodeIds, c \in CmdPayloads : NodeSetCmd([ID |-> id, Cmd |-> c])
  \/ \E id \in NodeIds : NodeDeleteCmd(id)
  \/ \E id \in NodeIds : NodeGetCmd(id)

Next == NextNode /\ UNCHANGED <<replVars, txn, issued, out>>

Spec == Init /\ [][Next]_vars

\* the command operations alone, on a store in which any of the nodes may exist
InitCmd ==
  /\ \E present \in SUBSET NodeIds :
       nodes = [id \in present |-> SetState([ZeroNode EXCEPT !.ID = id], SysStateOnline)]
  /\ cmds = EmptyBucket
  /\ rules = EmptyBucket
  /\ nextRule = 1
  /\ last = NoCall
  /\ hist = [id \in NodeIds |-> [k |-> "none", c |-> ""]]
  /\ InitIdentity
  /\ InitIdle

NextCmd ==
  /\ \/ \E id \in NodeIds, c \in CmdPayloads : NodeSetCmd([ID |-> id, Cmd |-> c])
     \/ \E id \in NodeIds : NodeDeleteCmd(id)
     \/ \E id \in NodeIds : NodeGetCmd(id)
  /\ UNCHANGED <<replVars, txn, issued, out>>

SpecCmd == InitCmd /\ [][NextCmd]_vars

\* point writes alone
NextPoint ==
  /\ \E id \in NodeIds, p \in AllPoints : NodePoint(id, p)
  /\ UNCHANGED <<replVars, txn, issued, out>>

SpecPoint == Init /\ [][NextPoint]_vars

\* the rule operations, with the node operations that create and delete nodes
NextRule ==
  /\ \/ \E id \in NodeIds, p \in OnePoint : NodePoint(id, p)
     \/ \E id \in NodeIds : NodeDelete(id)
     \/ \E id \in NodeIds, s \in RuleStates : RuleInsert([NodeID |-> id], s)
     \/ \E r \in RuleIds, id \in NodeIds : RuleUpdateConfig(r, [NodeID |-> id])
     \/ \E r \in RuleIds, s \in RuleStates : RuleUpdateState(r, s)
     \/ \E r \in RuleIds : RuleDelete(r)
  /\ UNCHANGED <<replVars, txn, issued, out>>

SpecRule == Init /\ [][NextRule]_vars

\* one SendNode(src, dest, root, "") call on some source tree, the
\* destination empty
InitRepl ==
  /\ InitDb
  /\ \E shape \in ParentChoices : src = SrcStore(shape)
  /\ dest = EmptyBucket
  /\ \E root \in TreeIds : stack = <<Call(root, "")>>
  /\ ret = "running"
  /\ log = <<>>
  /\ sent = NoSent

NextRepl ==
  /\ \/ GetNodeOk
     \/ GetNodeErr
     \/ SendPointsOk
     \/ SendPointsErr
     \/ GetNodeChildrenOk
     \/ GetNodeChildrenErr
     \/ SendChild
     \/ ReturnNil
  /\ UNCHANGED <<dbVars, txn>>

SpecRepl == InitRepl /\ [][NextRepl]_vars

\* SendNode called up to MaxRuns times in a row for the same root, the source
\* unchanged
NextRerun ==
  \/ NextRepl
  \/ SendNodeAgain /\ UNCHANGED <<dbVars, txn>>

SpecRerun == InitRepl /\ [][NextRerun]_vars

\* the group operations and the two queries that read the groups, on a store
\* that holds no node or one node in group 1 and one node in no group
InitGroup ==
  /\ nodes \in {EmptyBucket,
                [id \in NodeIds |->
                   [SetState([ZeroNode EXCEPT !.ID = id], SysStateOffline)
                      EXCEPT !.Groups = IF id = "n1" THEN <<1>> ELSE <<>>]]}
  /\ cmds = EmptyBucket
  /\ rules = EmptyBucket
  /\ nextRule = 1
  /\ last = NoCall
  /\ hist = [id \in NodeIds |-> [k |-> "none", c |-> ""]]
  /\ InitIdentity
  /\ InitIdle

NextGroup ==
  /\ \/ initialize
     \/ \E g \in GroupInputs({zero} \cup issued) : Cardinality(issued) < MaxGroups /\ GroupInsert(g)
     \/ \E g \in GroupInputs({zero} \cup issued) : GroupUpdate(g)
     \/ \E id \in {zero} \cup issued : GroupDelete(id)
     \/ \E id \in UserIds : UserIsRoot(id)
     \/ \E id \in UserIds : NodesForUser(id)
  /\ UNCHANGED <<replVars, txn, nextRule, last, hist>>

SpecGroup == InitGroup /\ [][NextGroup]_vars

\* the user operations and the listing of the users
NextUsers ==
  /\ \/ initialize
     \/ \E n \in FirstNames : UserInsert([ID |-> zero, FirstName |-> n])
     \/ \E id \in {zero} \cup issued : UserDelete(id)
     \/ Users
  /\ UNCHANGED <<replVars, txn, nextRule, last, hist>>

SpecUsers == Init /\ [][NextUsers]_vars

\* every operation that reads a node or a rule before it writes
NextNotFound ==
  /\ \/ \E id \in OneNode, p \in OnePoint : NodePoint(id, p)
     \/ \E id \in OneNode, s \in SysStates : NodeSetState(id, s)
     \/ \E id \in OneNode, s \in SwStates : NodeSetSwUpdateState(id, s)
     \/ \E id \in OneNode, g \in GroupLists : NodeUpdateGroups(id, g)
     \/ \E id \in OneNode : NodeSetCmd([ID |-> id, Cmd |-> "a"])
     \/ \E id \in OneNode : NodeDeleteCmd(id)
     \/ \E id \in OneNode : NodeDelete(id)
     \/ \E id \in OneNode, s \in RuleStates : RuleInsert([NodeID |-> id], s)
     \/ \E r \in RuleIds, id \in OneNode : RuleUpdateConfig(r, [NodeID |-> id])
     \/ \E r \in RuleIds, s \in RuleStates : RuleUpdateState(r, s)
  /\ UNCHANGED <<replVars, txn, issued, out>>

SpecNotFound == Init /\ [][NextNotFound]_vars

\* the operations on one node that read or write its pending flag or its
\* command, with the rule insert and the node delete
NextPending ==
  /\ \/ \E id \in OneNode, p \in OnePoint : NodePoint(id, p)
     \/ \E id \in OneNode, s \in SysStates : NodeSetState(id, s)
     \/ \E id \in OneNode, s \in SwStates : NodeSetSwUpdateState(id, s)
     \/ \E id \in OneNode, g \in GroupLists : NodeUpdateGroups(id, g)
     \/ \E id \in OneNode, c \in CmdPayloads : NodeSetCmd([ID |-> id, Cmd |-> c])
     \/ \E id \in OneNode : NodeDeleteCmd(id)
     \/ \E id \in OneNode : NodeGetCmd(id)
     \/ \E id \in OneNode : NodeDelete(id)
     \/ \E id \in OneNode, s \in RuleStates : RuleInsert([NodeID |-> id], s)
  /\ UNCHANGED <<replVars, txn, issued, out>>

SpecPending == Init /\ [][NextPending]_vars

\* the inserts and the updates of users and groups, the groups without
\* members
NextUpdate ==
  /\ \/ initialize
     \/ \E n \in FirstNames \ {"Bob"} :
          Cardinality(issued) < MaxGroups /\ UserInsert([ID |-> zero, FirstName |-> n])
     \/ \E id \in {zero} \cup issued, n \in FirstNames \ {"Bob"} :
          UserUpdate([ID |-> id, FirstName |-> n])
     \/ \E g \in {i \in GroupInputs({zero} \cup issued) : i.Users = <<>>} :
          Cardinality(issued) < MaxGroups /\ GroupInsert(g)
     \/ \E g \in {i \in GroupInputs({zero} \cup issued) : i.Users = <<>>} : GroupUpdate(g)
  /\ UNCHANGED <<replVars, txn, nextRule, last, hist>>

SpecUpdate == Init /\ [][NextUpdate]_vars

\* two calls on node n1 made at the same time, the node stored or not
InitConc ==
  /\ nodes \in {EmptyBucket,
                [id \in OneNode |-> SetState([ZeroNode EXCEPT !.ID = id], SysStateOffline)]}
  /\ cmds = EmptyBucket
  /\ rules = EmptyBucket
  /\ nextRule = 1
  /\ last = NoCall
  /\ hist = [id \in NodeIds |-> [k |-> "none", c |-> ""]]
  /\ users = EmptyBucket
  /\ groups = EmptyBucket
  /\ issued = {}
  /\ out = NoOut
  /\ \E c1 \in FirstCalls, c2 \in SecondCalls :
       txn = [lock |-> "", start |-> Store,
              procs |-> [p \in Procs |->
                           [call |-> IF p = "p1" THEN c1 ELSE c2,
                            pc |-> "call", snap |-> Store, err |-> Nil]]]
  /\ InitIdle

NextConc ==
  /\ \/ \E p \in Procs : Begin(p)
     \/ \E p \in Procs : Read(p)
     \/ \E p \in Procs : Commit(p)
  /\ UNCHANGED <<replVars, nextRule, last, hist, issued, out>>

SpecConc == InitConc /\ [][NextConc]_vars

\* one SendNode(src, dest, "r", "") call on a source whose children relation
\* has a cycle, the recursion followed down to MaxDepth calls
InitCycle ==
  /\ InitDb
  /\ \E kids \in CyclicChildren :
       src = [nodes |-> [id \in TreeIds |-> SrcNode(id)], children |-> kids]
  /\ dest = EmptyBucket
  /\ stack = <<Call("r", "")>>
  /\ ret = "running"
  /\ log = <<>>
  /\ sent = NoSent

NextCycle ==
  /\ \/ GetNodeOk
     \/ GetNodeErr
     \/ SendPointsOk
     \/ SendPointsErr
     \/ GetNodeChildrenOk
     \/ GetNodeChildrenErr
     \/ Len(stack) < MaxDepth /\ SendChild
     \/ ReturnNil
  /\ UNCHANGED <<dbVars, txn>>

SpecCycle == InitCycle /\ [][NextCycle]_vars

\* ------------------------------------------------------------- properties
\* the step taken is the call op on identifier id
Called(op, id) == last'.op = op /\ last'.id = id

StoreUnchanged == UNCHANGED <<nodes, cmds, rules, users, groups>>

IsPending(id) == Has(nodes, id) /\ nodes[id].CmdPending

\* C1: after every setCommand, takeCommand and clearCommand call, successful
\* or failed, on existing or missing nodes, a node's pending flag is true
\* if and only if a Command record keyed by the node's identifier exists.
C1_PendingIffCommand == \A id \in NodeIds : IsPending(id) <=> Has(cmds, id)

\* a clearCommand has succeeded on one node while the other node still has
\* its command pending
C1_Witness ==
  /\ last.op = "NodeDeleteCmd" /\ last.err = Nil
  /\ ~IsPending(last.id)
  /\ \E id \in NodeIds : IsPending(id) /\ Has(cmds, id)

\* C2: in every reachable state of the store, under all node repository
\* operations, a Command record exists for an identifier if and only if a
\* Node with that identifier exists and has its pending flag set; no Command
\* record survives the deletion of its node.
C2_CommandIffPendingNode ==
  /\ \A id \in DOMAIN cmds : Has(nodes, id) /\ nodes[id].CmdPending
  /\ \A id \in DOMAIN nodes : nodes[id].CmdPending => Has(cmds, id)

\* C3: applyPoint on an identifier for which no Node exists does not fail; it
\* creates exactly one Node, carrying the given identifier, whose points are
\* exactly the given point and whose state is online, and it creates or
\* changes no other record.
C3_Step(id) ==
  (Called("NodePoint", id) /\ ~Has(nodes, id)) =>
     /\ last'.err = Nil
     /\ DOMAIN nodes' = (DOMAIN nodes) \cup {id}
     /\ nodes'[id].ID = id
     /\ nodes'[id].Points = <<last'.arg>>
     /\ nodes'[id].SysState = SysStateOnline
     /\ \A other \in DOMAIN nodes : nodes'[other] = nodes[other]
     /\ cmds' = cmds
     /\ rules' = rules

C3_UpsertOnMissing == [][\A id \in NodeIds : C3_Step(id)]_vars

\* applyPoint has just created a node next to an existing one
C3_Witness ==
  /\ last.op = "NodePoint" /\ last.err = Nil
  /\ Has(nodes, last.id) /\ nodes[last.id].Points = <<last.arg>>
  /\ nodes[last.id].Groups = <<>> /\ nodes[last.id].SwUpdateState = "idle"
  /\ \E other \in DOMAIN nodes : other # last.id /\ Has(cmds, other)

\* C4: after any sequence of applyPoint calls a node holds at most one point
\* per (Type, Key), the most recently applied one; an applyPoint of (T, K)
\* leaves the node identifier and every stored point of another (Type, Key)
\* unchanged, and leaves the node's state online.
SameIdent(p, q) == p.Type = q.Type /\ p.Key = q.Key

C4_Step(id) ==
  Called("NodePoint", id) =>
     LET p == last'.arg
         old == IF Has(nodes, id) THEN nodes[id].Points ELSE <<>>
         new == nodes'[id].Points
     IN /\ nodes'[id].ID = id
        /\ nodes'[id].SysState = SysStateOnline
        /\ \A i, j \in 1..Len(new) : SameIdent(new[i], new[j]) => i = j
        /\ \E i \in 1..Len(new) : new[i] = p
        /\ \A i \in 1..Len(old) : ~SameIdent(old[i], p) => new[i] = old[i]
        /\ {new[i] : i \in 1..Len(new)} \subseteq {old[i] : i \in 1..Len(old)} \cup {p}

C4_OnePointPerTypeKey == [][\A id \in NodeIds : C4_Step(id)]_vars

\* a point has replaced an earlier point of its (Type, Key) on a node that
\* holds points of the other identities as well
C4_Witness ==
  /\ last.op = "NodePoint"
  /\ Len(nodes[last.id].Points) = Cardinality(PointIdents)
  /\ nodes[last.id].Points[1] = last.arg
  /\ last.arg.Value = MaxValue

\* C5: takeCommand for an identifier with no Command record returns an empty
\* command and no error, whether or not the node exists, leaves the whole
\* store unchanged with the node's pending flag false, and gives the same
\* result when repeated.
C5_Step(id) ==
  (Called("NodeGetCmd", id) /\ ~Has(cmds, id)) =>
     /\ last'.cmd = "" /\ last'.err = Nil
     /\ StoreUnchanged
     /\ ~IsPending(id)'
     /\ NodeGetCmdRead(Store', id) = ZeroCmd
     /\ NodeGetCmdTx(Store', id) = Ok(Store')

C5_TakeWithoutCommand == [][\A id \in NodeIds : C5_Step(id)]_vars

\* takeCommand has returned an empty command for an existing node with no
\* Command record
C5_Witness ==
  /\ last.op = "NodeGetCmd" /\ last.err = Nil /\ last.cmd = ""
  /\ ~Has(cmds, last.id) /\ Has(nodes, last.id)

\* C6: a command is delivered at most once: once a takeCommand on n has
\* returned a non-empty command (and no error), the Command record is gone
\* and every later takeCommand on n returns an empty one until a setCommand
\* on n succeeds; a setCommand overwrites a pending command, and the next
\* takeCommand returns the payload of the most recent successful setCommand.
\* (Calls are write transactions of one store, which bolt serialises, so two
\* concurrent takeCommand calls are two consecutive ones.)
C6_Step(id) ==
  Called("NodeGetCmd", id) =>
     /\ hist[id].k = "taken" => last'.cmd = ""
     /\ hist[id].k = "set" => last'.cmd = hist[id].c
     /\ (last'.err = Nil /\ last'.cmd # "") => ~Has(cmds', id)

C6_Delivered ==
  (last.op = "NodeGetCmd" /\ last.err = Nil /\ last.cmd # "") => ~Has(cmds, last.id)

C7_Step(id) ==
  (Called("NodeSetCmd", id) /\ ~Has(nodes, id)) =>
     /\ last'.err = ErrNotFound
     /\ StoreUnchanged
     /\ ~Has(nodes', id)
     /\ Has(cmds', id) <=> Has(cmds, id)

C7_SetCommandNotFound == [][\A id \in NodeIds : C7_Step(id)]_vars

\* setCommand has failed on a missing node
C7_Witness ==
  /\ last.op = "NodeSetCmd" /\ last.err = ErrNotFound
  /\ ~Has(nodes, last.id) /\ ~Has(cmds, last.id)

\* C8: for every existing node, deleteNode succeeds and afterwards neither
\* the node nor any Rule associated with it (listed in its Rules or having
\* Config.NodeID equal to its identifier) remains; with zero rules it
\* removes exactly the node.
Associated(id) ==
  {nodes[id].Rules[i] : i \in 1..Len(nodes[id].Rules)}
    \cup {r \in DOMAIN rules : rules[r].Config.NodeID = id}

C8_Step(id) ==
  (Called("NodeDelete", id) /\ Has(nodes, id)) =>
     /\ last'.err = Nil
     /\ ~Has(nodes', id)
     /\ \A r \in Associated(id) : ~Has(rules', r)
     /\ Associated(id) = {} => rules' = rules /\ nodes' = Del(nodes, id)

C8_DeleteNodeCascades == [][\A id \in NodeIds : C8_Step(id)]_vars

\* C9: in every reachable state each Node's Rules equal the identifiers of
\* the Rules in the store whose Config.NodeID is the node's identifier.
C9_RulesBackReference ==
  \A id \in DOMAIN nodes :
     {nodes[id].Rules[i] : i \in 1..Len(nodes[id].Rules)}
       = {r \in DOMAIN rules : rules[r].Config.NodeID = id}
\* C10: during SendNode, the publication of a node's points (its node-type
\* point included) to the destination completes before the children of the
\* node are fetched and before any point of a descendant is published; no
\* descendant is published before its ancestor.
Published(id, upto) == \E i \in 1..upto : log[i].ev = "points" /\ log[i].id = id

HasTypePoint(id) ==
  /\ Has(dest, id)
  /\ \E i \in 1..Len(dest[id].Points) :
        /\ dest[id].Points[i].Type = PointTypeNodeType
        /\ dest[id].Points[i].Text = src.nodes[id].Type

C10_ParentFirst ==
  /\ \A j \in 1..Len(log) :
        /\ log[j].ev = "children" => Published(log[j].id, j - 1)
        /\ (log[j].ev = "points" /\ log[j].parent # "") => Published(log[j].parent, j - 1)
        /\ log[j].ev = "points" => HasTypePoint(log[j].id)
  /\ \A k \in 1..Len(stack) :
        k > 1 => Published(stack[k].parent, Len(log)) /\ HasTypePoint(stack[k].parent)

\* a grandchild of the root has been published
C10_Witness ==
  \E j \in 1..Len(log) :
     /\ log[j].ev = "points" /\ log[j].parent # "" /\ log[j].parent # log[1].id
     /\ Has(dest, log[j].id) /\ Has(dest, log[j].parent) /\ Has(dest, log[1].id)
\* C11: once SendNode(src, dest, root, "") has returned nil on a source tree
\* and an empty destination, the destination holds exactly one Node per
\* source node of the subtree, each with all of the source node's points
\* unchanged, a node-type point equal to the source node's Type and, for
\* every node but the root, a parent point naming its source parent.
Root == log[1].id

KidsOf(id) == {src.children[id][i] : i \in 1..Len(src.children[id])}

RECURSIVE Below(_, _)
Below(ids, depth) ==
  IF depth = 0 THEN ids
  ELSE Below(ids \cup UNION {KidsOf(id) : id \in ids}, depth - 1)

Subtree(root) == Below({root}, Cardinality(TreeIds))

SourceParent(id) == CHOOSE p \in TreeIds : id \in KidsOf(p)

PointsOf(bucket, id) == {bucket[id].Points[i] : i \in 1..Len(bucket[id].Points)}

Replicated(id, root) ==
  /\ Has(dest, id)
  /\ dest[id].ID = id
  /\ PointsOf(src.nodes, id) \subseteq PointsOf(dest, id)
  /\ \A i \in 1..Len(src.nodes[id].Points) : dest[id].Points[i] = src.nodes[id].Points[i]
  /\ Len(dest[id].Points) = Len(src.nodes[id].Points) + (IF id = root THEN 1 ELSE 2)
  /\ \E p \in PointsOf(dest, id) : p.Type = PointTypeNodeType /\ p.Text = src.nodes[id].Type
  /\ id # root =>
       \E p \in PointsOf(dest, id) : p.Type = PointTypeParent /\ p.Text = SourceParent(id)

C11_RoundTrip ==
  ret = Nil =>
     /\ DOMAIN dest = Subtree(Root)
     /\ \A id \in Subtree(Root) : Replicated(id, Root)

\* a root with two children and one grandchild has been replicated
C11_Witness ==
  /\ ret = Nil
  /\ Cardinality(DOMAIN dest) = 4
  /\ Len(src.children[Root]) = 2
  /\ \E c \in KidsOf(Root) : KidsOf(c) # {}

\* C12: if fetching, publishing or recursing fails for a node, SendNode
\* returns an error, no node later in the depth-first order is fetched or
\* published, and every node published before the failure stays applied at
\* the destination; SendNode returns nil only if every node of the subtree
\* was published.
RECURSIVE Visit(_, _)
RECURSIVE VisitAll(_, _)
Visit(id, parent) ==
  <<[ev |-> "node", id |-> id, parent |-> parent],
    [ev |-> "points", id |-> id, parent |-> parent],
    [ev |-> "children", id |-> id, parent |-> parent]>>
    \o VisitAll(src.children[id], id)

VisitAll(kids, parent) ==
  IF kids = <<>> THEN <<>> ELSE Visit(Head(kids), parent) \o VisitAll(Tail(kids), parent)

IsPrefix(a, b) == Len(a) <= Len(b) /\ SubSeq(b, 1, Len(a)) = a

PublishedIds == {log[j].id : j \in {k \in 1..Len(log) : log[k].ev = "points"}}

IsError(r) == r \notin {Nil, "running", "idle"}

C12_StopAtFirstError ==
  /\ log # <<>> => IsPrefix(log, Visit(Root, ""))
  /\ DOMAIN dest = PublishedIds
  /\ \A id \in PublishedIds : Replicated(id, Root)
  /\ IsError(ret) => stack = <<>>
  /\ (stack = <<>> /\ (log = <<>> \/ log # Visit(Root, ""))) => IsError(ret)
  /\ ret = Nil => PublishedIds = Subtree(Root)

\* SendNode has returned the error of a child's call after two nodes were
\* published, a node of the subtree still missing at the destination
C12_Witness ==
  /\ ret = "Error sending child node"
  /\ Cardinality(DOMAIN dest) >= 2
  /\ Subtree(Root) \ DOMAIN dest # {}

\* C13: replication is idempotent: a second SendNode for the same root on an
\* unchanged source, after the first returned nil, leaves the destination as
\* the first call left it.
C13_Idempotent == [][Runs >= 2 => dest' = dest]_vars

\* the second call in a row has returned nil on a tree of four nodes
C13_Witness ==
  /\ Runs = 2 /\ ret = Nil
  /\ Len(log) = 2 * Len(Visit(Root, ""))
  /\ Cardinality(DOMAIN dest) = 4

\* the keys of the groups that carry the sentinel identifier in their ID field
RootKeys == {k \in DOMAIN groups : groups[k].ID = zero}

\* the group under key k lists user u as a member
Lists(k, u) == \E i \in 1..Len(groups[k].Users) : groups[k].Users[i].UserID = u

\* the nodes that belong to a group that lists user u
VisibleTo(u) ==
  {nodes[n] : n \in {m \in DOMAIN nodes :
     \E k \in DOMAIN groups : Lists(k, u) /\ groups[k].ID \in Elems(nodes[m].Groups)}}

AllNodes == {nodes[n] : n \in DOMAIN nodes}

\* C14: NodesForUser(userID) returns every node when the sentinel group lists
\* the user, and when it does not it returns exactly the nodes whose Groups
\* holds the identifier of a group that lists the user (no node at all when
\* no group lists the user or no node is in such a group).  The result stays
\* in out until the next call, the store unchanged.
C14_NodesForUser ==
  (out.op = "NodesForUser" /\ out.err = Nil /\ RootKeys # {}) =>
    /\ (\A k \in RootKeys : Lists(k, out.id)) => out.res = AllNodes
    /\ (\A k \in RootKeys : ~Lists(k, out.id)) => out.res = VisibleTo(out.id)

\* a user outside the root group got one of the two nodes
C14_Witness ==
  /\ out.op = "NodesForUser" /\ out.err = Nil
  /\ RootKeys # {} /\ \A k \in RootKeys : ~Lists(k, out.id)
  /\ Cardinality(out.res) = 1 /\ Cardinality(DOMAIN nodes) = 2

\* initialize has stored its records (no operation of SpecGroup removes the
\* admin user)
Initialized == Has(users, zero)

\* C15: on an initialized store UserIsRoot returns no error, true exactly for
\* the identifiers the group with the sentinel identifier lists and false for
\* every other identifier, a never inserted one included.
C15_IsRoot ==
  (Initialized /\ out.op = "UserIsRoot") =>
    /\ out.err = Nil
    /\ (\A k \in RootKeys : Lists(k, out.id)) => out.res = TRUE
    /\ (\A k \in RootKeys : ~Lists(k, out.id)) => out.res = FALSE

\* user u holds the admin role in a group that carries the sentinel identifier
AdminIn(u) ==
  \E k \in RootKeys : \E i \in 1..Len(groups[k].Users) :
    groups[k].Users[i].UserID = u /\ RoleAdmin \in Elems(groups[k].Users[i].Roles)

\* C16: on an initialized store whose only group with the sentinel
\* identifier is the root group, a user who does not hold the admin role in
\* the root group is not root for UserIsRoot, and NodesForUser gives that
\* user the nodes of the user's groups only.
C16_AdminRoleRequired ==
  (Initialized /\ RootKeys = {zero} /\ ~AdminIn(out.id)) =>
    /\ out.op = "UserIsRoot" => out.res = FALSE
    /\ out.op = "NodesForUser" => out.res = VisibleTo(out.id)

\* C17: initialize on a store without users and groups stores, in the one
\* step, the admin user and the group named root under the zero key and
\* nothing else, the group listing that user alone with the admin role; on a
\* store that holds a group named root it returns no error and changes
\* nothing; and when it fails it changes nothing.
C17_Step ==
  out'.op = "initialize" =>
    /\ (users = EmptyBucket /\ groups = EmptyBucket) =>
         /\ out'.err = Nil
         /\ DOMAIN users' = {zero} /\ users'[zero].ID = zero
         /\ DOMAIN groups' = {zero} /\ groups'[zero].ID = zero
         /\ groups'[zero].Name = "root"
         /\ Len(groups'[zero].Users) = 1
         /\ groups'[zero].Users[1].UserID = zero
         /\ RoleAdmin \in Elems(groups'[zero].Users[1].Roles)
    /\ (\E k \in DOMAIN groups : groups[k].Name = "root") =>
         out'.err = Nil /\ UNCHANGED <<nodes, cmds, rules, users, groups>>
    /\ out'.err # Nil => UNCHANGED <<nodes, cmds, rules, users, groups>>

C17_Initialize == [][C17_Step]_vars

\* initialize returned no error on a store whose group named root is not the
\* one initialize creates: the call found the store initialized
C17_Witness ==
  /\ out.op = "initialize" /\ out.err = Nil
  /\ Has(users, zero)
  /\ Has(groups, zero) /\ groups[zero].Users # RootGroup.Users

\* C18: once initialize has run, whatever GroupInsert, GroupUpdate and
\* GroupDelete calls follow, exactly one group has the zero identifier in its
\* ID field, and it is the group under the zero key that initialize created.
C18_OneSentinelGroup == Initialized => RootKeys = {zero}

\* C19: Users returns every stored user exactly once, ascending by
\* lower-cased first name, users with equal lower-cased first names in the
\* order in which the store returns them.
C19_StableSort ==
  out.op = "Users" =>
    LET stored == FindUsers(Store)
        n == Len(stored)
    IN /\ Len(out.res) = n
       /\ \E f \in Permutations(1..n) :
            /\ \A i \in 1..n : out.res[i] = stored[f[i]]
            /\ \A i, j \in 1..n : i < j =>
                 \/ Less(out.res[i], out.res[j])
                 \/ /\ ~Less(out.res[j], out.res[i])
                    /\ f[i] < f[j]

\* C20: NodePoint, NodeSetState and NodeSetSwUpdateState never return an
\* error for a missing node: they store a node with the identifier given and
\* touch no other key.  NodeUpdateGroups, NodeSetCmd, NodeDeleteCmd,
\* NodeDelete and RuleInsert on a missing node, and RuleUpdateConfig and
\* RuleUpdateState on a missing rule, return ErrNotFound and leave every
\* bucket as it was.
C20_Step ==
  /\ last'.op \in {"NodePoint", "NodeSetState", "NodeSetSwUpdateState"} =>
       /\ last'.err = Nil
       /\ DOMAIN nodes' = DOMAIN nodes \cup {last'.id}
       /\ nodes'[last'.id].ID = last'.id
       /\ ~Has(nodes, last'.id) => nodes'[last'.id].Groups = <<>> /\ nodes'[last'.id].Rules = <<>>
  /\ (/\ last'.op \in {"NodeUpdateGroups", "NodeSetCmd", "NodeDeleteCmd", "NodeDelete", "RuleInsert"}
      /\ ~Has(nodes, last'.id)) =>
       last'.err = ErrNotFound /\ StoreUnchanged
  /\ (/\ last'.op \in {"RuleUpdateConfig", "RuleUpdateState"}
      /\ ~Has(rules, last'.arg)) =>
       last'.err = ErrNotFound /\ StoreUnchanged

C20_NotFound == [][C20_Step]_vars

\* NodeSetSwUpdateState created a node: no point was written to it and its
\* state was never set, after a rule was inserted and the node deleted
C20_Witness ==
  /\ last.op = "NodeSetSwUpdateState" /\ last.err = Nil
  /\ Has(nodes, last.id)
  /\ nodes[last.id].Points = <<>> /\ nodes[last.id].SysState = SysStateUnknown
  /\ nextRule > 1

\* C21: NodeDelete on a missing node returns ErrNotFound; when an identifier
\* listed in the node's Rules has no rule in the store the call returns an
\* error; and every NodeDelete call that returns an error leaves every
\* bucket as it was, the node and the rules it still has included.
C21_Step ==
  \A id \in NodeIds : Called("NodeDelete", id) =>
    /\ ~Has(nodes, id) => last'.err = ErrNotFound
    /\ (Has(nodes, id) /\ \E i \in 1..Len(nodes[id].Rules) : ~Has(rules, nodes[id].Rules[i])) =>
         last'.err = ErrNotFound
    /\ last'.err # Nil => StoreUnchanged
    /\ last'.err = Nil => ~Has(nodes', id)

C21_DeleteNodeAllOrNothing == [][C21_Step]_vars

\* NodeDelete failed on a node that lists a rule still stored before a rule
\* that is gone: the node and the stored rule are still there
C21_Witness ==
  /\ last.op = "NodeDelete" /\ last.err = ErrNotFound
  /\ Has(nodes, last.id)
  /\ Len(nodes[last.id].Rules) = 2
  /\ Has(rules, nodes[last.id].Rules[1])
  /\ ~Has(rules, nodes[last.id].Rules[2])

\* C22: whenever NodeGetCmd hands its caller a non-empty command, with or
\* without an error, the Command record of that node is gone from the
\* committed store and the node's pending flag is false.  The call's result
\* stays in last until the next call, the store unchanged.
C22_TakenIsDeleted ==
  (last.op = "NodeGetCmd" /\ last.cmd # "") =>
    /\ ~Has(cmds, last.id)
    /\ ~IsPending(last.id)

\* the Command record stored for a node, as a list of at most one record
CmdRec(bucket, id) == IF Has(bucket, id) THEN <<bucket[id]>> ELSE <<>>

\* C23: when the pending flag or the Command record of a node that exists
\* before and after a call changes, the call is NodeSetCmd, NodeDeleteCmd or
\* a NodeGetCmd that read a non-empty command, on that node: NodePoint,
\* NodeSetState, NodeSetSwUpdateState, NodeUpdateGroups, RuleInsert and a
\* NodeGetCmd that finds no command or an empty one change neither.
C23_Step ==
  \A id \in NodeIds :
    (/\ Has(nodes, id) /\ Has(nodes', id)
     /\ \/ nodes'[id].CmdPending # nodes[id].CmdPending
        \/ CmdRec(cmds', id) # CmdRec(cmds, id)) =>
      /\ last'.id = id
      /\ \/ last'.op = "NodeSetCmd"
         \/ last'.op = "NodeDeleteCmd"
         \/ last'.op = "NodeGetCmd" /\ last'.cmd # ""

C23_PendingChangesOnlyByCommandOps == [][C23_Step]_vars

\* NodeUpdateGroups has just rewritten a node whose command is pending
C23_Witness ==
  /\ last.op = "NodeUpdateGroups" /\ last.err = Nil /\ last.arg # <<>>
  /\ IsPending(last.id) /\ Has(cmds, last.id)
  /\ nodes[last.id].Rules # <<>> /\ nodes[last.id].Points # <<>>

\* C24: NodeDeleteCmd on a node identifier without a Command record fails
\* and changes nothing; with the Command and the node both stored it returns
\* no error, the Command is gone and the node differs only in its pending
\* flag, now false; with the Command stored and the node missing it fails
\* and the Command is still stored.
C24_Step ==
  \A id \in NodeIds : Called("NodeDeleteCmd", id) =>
    /\ ~Has(cmds, id) => last'.err = ErrNotFound /\ StoreUnchanged
    /\ (Has(cmds, id) /\ Has(nodes, id)) =>
         /\ last'.err = Nil
         /\ cmds' = Del(cmds, id)
         /\ nodes' = [nodes EXCEPT ![id].CmdPending = FALSE]
         /\ UNCHANGED rules
    /\ (Has(cmds, id) /\ ~Has(nodes, id)) =>
         last'.err = ErrNotFound /\ Has(cmds', id) /\ StoreUnchanged

C24_ClearCommand == [][C24_Step]_vars

\* NodeDeleteCmd failed on a Command whose node is gone and the Command is
\* still stored
C24_Witness ==
  /\ last.op = "NodeDeleteCmd" /\ last.err = ErrNotFound
  /\ Has(cmds, last.id) /\ ~Has(nodes, last.id)

\* the number of entries of a list that equal x
Count(seq, x) == Cardinality({i \in 1..Len(seq) : seq[i] = x})

\* C25: RuleInsert takes an identifier under which no rule is stored; when
\* the node its config names exists it returns no error, the rule is stored
\* under that identifier, the other rules are untouched, and the node
\* differs only in its Rules, which gained that identifier once at the end;
\* when the node is missing it returns ErrNotFound and the rule is not in
\* the store.
C25_Step ==
  \A id \in NodeIds : Called("RuleInsert", id) =>
    /\ ~Has(rules, last'.arg)
    /\ Has(nodes, id) =>
         /\ last'.err = Nil
         /\ DOMAIN rules' = DOMAIN rules \cup {last'.arg}
         /\ \A k \in DOMAIN rules : rules'[k] = rules[k]
         /\ rules'[last'.arg].ID = last'.arg
         /\ rules'[last'.arg].Config.NodeID = id
         /\ nodes' = [nodes EXCEPT ![id].Rules = Append(@, last'.arg)]
         /\ Count(nodes'[id].Rules, last'.arg) = 1
         /\ UNCHANGED cmds
    /\ ~Has(nodes, id) =>
         last'.err = ErrNotFound /\ ~Has(rules', last'.arg) /\ StoreUnchanged

C25_InsertRule == [][C25_Step]_vars

\* the second rule inserted for a node that still lists the first
C25_Witness ==
  /\ last.op = "RuleInsert" /\ last.err = Nil
  /\ Has(nodes, last.id) /\ Len(nodes[last.id].Rules) = 2
  /\ nodes[last.id].Rules[2] = last.arg
  /\ Has(rules, last.arg)

\* an update of record r took the bucket from before to after as C26 says:
\* after holds r under the key r.ID, no other key of after has a record
\* whose ID field is r.ID, and every record of before that is not r's (other
\* key, other ID field) is in after as it was, with no key added but r.ID
Replaced(before, after, r) ==
  /\ Has(after, r.ID) /\ after[r.ID] = r
  /\ {k \in DOMAIN after : after[k].ID = r.ID} = {r.ID}
  /\ \A k \in DOMAIN before :
       (k # r.ID /\ before[k].ID # r.ID) => Has(after, k) /\ after[k] = before[k]
  /\ DOMAIN after \subseteq DOMAIN before \cup {r.ID}

\* C26: UserUpdate and GroupUpdate of a record r return no error, whatever
\* key a record with r's identifier is stored under, and afterwards exactly
\* one record of the collection has r.ID in its ID field: it is stored under
\* the key r.ID and equals r, and no other record of the collection changed.
C26_Step ==
  /\ out'.op = "UserUpdate" =>
       out'.err = Nil /\ Replaced(users, users', out'.res) /\ UNCHANGED groups
  /\ out'.op = "GroupUpdate" =>
       out'.err = Nil /\ Replaced(groups, groups', out'.res) /\ UNCHANGED users

C26_UpdateFixesKey == [][C26_Step]_vars

\* the last request answered
LastEvent == log[Len(log)]

\* C27: the point list SendNode hands to SendPoints for a node is the points
\* the source holds for the node, in their order, then one node-type point
\* whose Text is the node's Type, then, only when the call's parent is not
\* empty, one parent point whose Text is that parent.  The call stays in
\* sent, and its event last in the log, until the next request.
C27_PublishedPoints ==
  (log # <<>> /\ LastEvent.ev = "points") =>
    LET node == src.nodes[LastEvent.id]
        n == Len(node.Points)
    IN /\ sent.id = LastEvent.id
       /\ Len(sent.points) = IF LastEvent.parent # "" THEN n + 2 ELSE n + 1
       /\ SubSeq(sent.points, 1, n) = node.Points
       /\ sent.points[n + 1].Type = PointTypeNodeType
       /\ sent.points[n + 1].Text = node.Type
       /\ LastEvent.parent # "" =>
            /\ sent.points[n + 2].Type = PointTypeParent
            /\ sent.points[n + 2].Text = LastEvent.parent

\* the points of the call's root have just been published, after those of a
\* child in the run before
C27_Witness ==
  /\ log # <<>> /\ LastEvent.ev = "points" /\ LastEvent.parent = ""
  /\ Len(sent.points) = Len(src.nodes[LastEvent.id].Points) + 1
  /\ \E j \in 1..Len(log) : log[j].ev = "points" /\ log[j].parent # ""

\* the store after the calls c1 and c2 run one after the other on st, each
\* committed when it returns nil and rolled back when it returns an error
After(call, st) == IF Apply(call, st).err = Nil THEN Apply(call, st).st ELSE st

Serial(c1, c2, st) == After(c2, After(c1, st))

BothDone == txn.procs # <<>> /\ \A p \in Procs : txn.procs[p].pc = "done"

\* C28: when two calls made at the same time on one node have both
\* returned, the store is the one that running them one after the other, in
\* one of the two orders, leaves: no write of either call is lost.
C28_NoLostUpdate ==
  BothDone =>
    \/ Store = Serial(txn.procs["p1"].call, txn.procs["p2"].call, txn.start)
    \/ Store = Serial(txn.procs["p2"].call, txn.procs["p1"].call, txn.start)

\* both calls returned nil on a node that was stored before them: the node
\* holds the point of p1 and the groups p2 assigned
C28_Witness ==
  /\ BothDone
  /\ Has(txn.start.nodes, "n1")
  /\ txn.procs["p2"].call.op = "NodeUpdateGroups"
  /\ nodes["n1"].Groups = <<1>>
  /\ Len(nodes["n1"].Points) = 1

\* C29: within one SendNode call no source node is published twice, also
\* when the source's children relation has a cycle (a call that does not
\* come back to a node it is already sending is a call that ends).
C29_PublishedOnce ==
  \A id \in TreeIds :
    Cardinality({j \in 1..Len(log) : log[j].ev = "points" /\ log[j].id = id}) <= 1

====
